---- MODULE Spec2Model ----
(***************************************************************************)
(* Consultation-request lifecycle and webhook delivery of glitch-forge    *)
(* (backend/app/api/v1/endpoints/requests.py).                            *)
(*                                                                         *)
(* The database is the shared state. Every respond_to_request call owns   *)
(* its own SQLAlchemy session (get_db) and may be served by any worker    *)
(* process, so the steps of two calls interleave at their database        *)
(* round trips (SELECT, COMMIT, refresh). The background task             *)
(* call_agent_webhook suspends at the HTTP call and at the backoff sleep. *)
(* The handler of one worker runs without suspension; that schedule is    *)
(* one of the interleavings below.                                        *)
(*                                                                         *)
(* Specifications:                                                         *)
(*   Spec        requests without secret and metadata; respond commits and *)
(*               refreshes in one step                                     *)
(*   SpecRefresh the same with db.commit() and db.refresh() as two steps   *)
(*   SpecSigned  one request with callback_secret and metadata             *)
(*   SpecCodec   create_webhook_signature and verify_webhook_signature     *)
(*   SpecExpire  Spec with the expire requests of the timeout sweeper      *)
(*   SpecTimeout one request with a deadline, and the clock passing it     *)
(*   SpecPair    two requests, one respond call each                       *)
(*   SpecCancel  SpecPair with tasks cancelled at their awaits             *)
(*   SpecRecording SpecPair with a commit of the success path that raises  *)
(*   SpecLive    two respond calls under a running event loop (fairness)   *)
(*   SpecInspect WebhookDelivery.is_success and is_retriable               *)
(*   SpecKeys    API keys and the create_request calls made with them      *)
(*   SpecEmail   send_notification_email                                   *)
(***************************************************************************)
EXTENDS Integers, Sequences, FiniteSets, Bags, TLC

VARIABLES
    consultation_requests,  \* table consultation_requests, id = index
    webhook_deliveries,     \* table webhook_deliveries, a bag of rows
    calls,                  \* respond_to_request calls, in arrival order
    tasks,                  \* tasks[h]: the webhook task scheduled by call h;
                            \* received is what the last client.post yielded
    now,                    \* datetime.utcnow(), a logical clock
    verification,           \* the last use of the signature functions of
                            \* core/security.py: arguments and outcome
    inspection,             \* the last WebhookDelivery whose properties
                            \* is_success and is_retriable were read
    api_keys,               \* table api_keys, id = index
    agent_calls,            \* create_request calls of agents, in arrival order
    email                   \* the last call of send_notification_email:
                            \* environment, provider outcome and result

vars == <<consultation_requests, webhook_deliveries, calls, tasks, now,
          verification, inspection, api_keys, agent_calls, email>>

\* the tables and processes of the request lifecycle
lifecycle == <<consultation_requests, webhook_deliveries, calls, tasks, now>>

\* what the request lifecycle never touches
other_services == <<verification, inspection, api_keys, agent_calls, email>>

----------------------------------------------------------------------------
(* Bounds *)

MaxRequests == 1

MaxCalls == 2

(* Program constants *)

max_retries == 3

(* Python None / SQL NULL, and a present value of a nullable column *)

None == <<>>

Some(v) == <<v>>

WebhookUrls == {None, Some("https://agent/resume")}

\* a Python str that is used as a key is a sequence of characters
NUL == "\\x00"

\* request_data.callback_secret: absent, the empty string, "k"
CallbackSecrets == {None, Some(<<>>), Some(<<"k">>)}

\* a Python dict is the sequence of its (key, value) items in insertion
\* order
EmptyDict == <<>>

\* request_data.metadata: absent, or {"workflow_id": "wf-1"}
Metadatas == {None, Some(<< <<"workflow_id", "wf-1">> >>)}

\* the (callback_secret, metadata) pairs requests are created with: one
\* per secret, with and without metadata
SignedInputs ==
    {<<secret, metadata>> \in CallbackSecrets \X Metadatas :
        (secret = None) <=> (metadata = None)}

\* the (current_user.id, response.decision) pairs respond calls are made
\* with: successive calls come from alternating reviewers
Responders == <<(<<"u1", "approve">>), (<<"u2", "reject">>)>>

ResponderOf(h) == Responders[((h - 1) % Len(Responders)) + 1]

StatusCodes == {200, 404, 500}

\* what client.post yields: a response with a status, or no response at all
\* (connection failure, 30 s timeout)
Outcomes == {Some(c) : c \in StatusCodes} \cup {None}

----------------------------------------------------------------------------
(* Helpers *)

RequestExists(rid) == rid \in 1..Len(consultation_requests)

\* the rows of webhook_deliveries with request_id = rid
RowsOf(rid) ==
    [d \in {x \in DOMAIN webhook_deliveries : x.request_id = rid}
        |-> webhook_deliveries[d]]

\* WebhookDelivery.is_success
is_success(d) ==
    d.status_code # None /\ 200 <= d.status_code[1] /\ d.status_code[1] < 300

\* a property that holds every failure worth retrying
is_retriable_unless_success(d) == ~is_success(d)

\* WebhookDelivery.is_retriable
is_retriable(d) ==
    IF d.status_code = None
    THEN TRUE
    ELSE IF 500 <= d.status_code[1] /\ d.status_code[1] < 600
    THEN TRUE
    ELSE FALSE

\* httpx Response.is_success, which raise_for_status() tests
Is2xx(o) == o # None /\ 200 <= o[1] /\ o[1] < 300


\* a guard that lets a responded request through
IsPendingOrResponded(request) == request.state \in {"pending", "responded"}

\* if request.state != "pending": raise HTTPException(400, ...)
IsPending(request) == request.state = "pending"

\* a lookup that answers as if the request had been found and responded
FoundResult == [status_code |-> 200, detail |-> <<>>, body |-> None]

\* raise HTTPException(status_code=404, detail="Request not found")
NotFoundResult ==
    [status_code |-> 404, detail |-> <<"Request not found">>, body |-> None]

\* detail=f"Request is already {request.state}, cannot respond"
ConflictDetail(request) ==
    <<"Request is already ", request.state, ", cannot respond">>

\* the assignments without request.responded_at
RespondUpdateNoTimestamp(request, user, decision, t) ==
    [request EXCEPT
        !.response = Some([decision |-> decision,
                           responder_id |-> user,
                           responded_at |-> t]),
        !.responded_by = Some(user),
        !.state = "responded"]

\* the assignments of respond_to_request to the loaded row
RespondUpdate(request, user, decision, t) ==
    [request EXCEPT
        !.response = Some([decision |-> decision,
                           responder_id |-> user,
                           responded_at |-> t]),
        !.responded_by = Some(user),
        !.responded_at = Some(t),
        !.state = "responded"]

\* a test that takes every request to have a webhook
HasWebhookAlways(request) == TRUE

\* truthiness of request.callback_webhook
HasWebhook(request) == request.callback_webhook # None

\* a response model that shows every column of the row
ResponseModelWithSecret(rid, request) == [id |-> rid] @@ request

\* ConsultationRequestResponse: the fields of the row an API response shows
ResponseModel(rid, request) ==
    [id |-> rid,
     metadata |-> request.metadata,
     state |-> request.state,
     response |-> request.response,
     responded_by |-> request.responded_by,
     responded_at |-> request.responded_at,
     callback_sent_at |-> request.callback_sent_at]

\* GET /api/v1/requests/{request_id}
get_request(rid) ==
    IF ~RequestExists(rid)
    THEN NotFoundResult
    ELSE [status_code |-> 200, detail |-> <<>>,
          body |-> Some(ResponseModel(rid, consultation_requests[rid]))]

\* GET /api/v1/requests with the state filter: the matching rows, newest
\* first (the default page holds them all), and their number
list_requests(state) ==
    LET Matches(rid) == state = None \/ consultation_requests[rid].state = state[1]
        newest_first == [i \in 1..Len(consultation_requests) |->
                            Len(consultation_requests) + 1 - i]
        ids == SelectSeq(newest_first, Matches)
    IN  [items |-> [i \in 1..Len(ids) |->
                       ResponseModel(ids[i], consultation_requests[ids[i]])],
         total |-> Len(ids)]

\* x or {}
OrEmptyDict(x) == IF x = None \/ x[1] = EmptyDict THEN EmptyDict ELSE x[1]

\* the value a dict holds under a key
Get(dict, key) == dict[CHOOSE i \in DOMAIN dict : dict[i][1] = key][2]

\* a payload that leaves the metadata of the request out
BuildPayloadNoMetadata(rid, request) ==
    << <<"event", "request.responded">>,
       <<"request_id", ToString(rid)>>,
       <<"metadata", EmptyDict>>,
       <<"response", request.response>> >>

\* payload = {"event": ..., "request_id": str(request.id),
\*            "metadata": request.metadata or {}, "response": ...}
BuildPayload(rid, request) ==
    << <<"event", "request.responded">>,
       <<"request_id", ToString(rid)>>,
       <<"metadata", OrEmptyDict(request.metadata)>>,
       <<"response", request.response>> >>

\* json.dumps(payload, separators=(',', ':')): the items in insertion order,
\* keys quoted, no whitespace; a value stands for its own JSON text
RECURSIVE json_items(_)
json_items(d) ==
    IF d = <<>> THEN <<>>
    ELSE <<"\"", d[1][1], "\"", ":", d[1][2]>>
            \o (IF Len(d) > 1 THEN <<",">> ELSE <<>>)
            \o json_items(Tail(d))

json_dumps(d) == <<"{">> \o json_items(d) \o <<"}">>

\* the key as HMAC uses it: hmac.new pads a key shorter than the block of
\* the hash with zero bytes, so trailing NUL characters do not count
RECURSIVE HmacKey(_)
HmacKey(key) ==
    IF key # <<>> /\ key[Len(key)] = NUL
    THEN HmacKey(SubSeq(key, 1, Len(key) - 1))
    ELSE key

\* a digest that does not depend on the key
unkeyed_hexdigest(key, msg) == ToString(msg)

\* hmac.new(key, msg, hashlib.sha256).hexdigest(): a digest that is taken
\* to differ whenever the padded key or the message differs
hexdigest(key, msg) == ToString(<<HmacKey(key), msg>>)

\* create_webhook_signature
create_webhook_signature(payload, secret) ==
    "sha256=" \o hexdigest(secret, json_dumps(payload))

\* strings that hold a character outside ASCII
NonAsciiStrings == {"sha256=\\u00e9"}

\* hmac.compare_digest(a, b) for b an ASCII str: TypeError when a is None
\* or a str with a non-ASCII character, else whether a equals b
compare_digest(a, b) ==
    IF a = None \/ a[1] \in NonAsciiStrings
    THEN [raised |-> Some("TypeError"), returned |-> None]
    ELSE [raised |-> None, returned |-> Some(a[1] = b)]

\* verify_webhook_signature
verify_webhook_signature(payload, signature, secret) ==
    compare_digest(signature, create_webhook_signature(payload, secret))

\* truthiness of request.callback_secret
HasSecret(request) ==
    request.callback_secret # None /\ request.callback_secret[1] # <<>>

\* headers = {"Content-Type": ...}, with X-Webhook-Signature under
\* if request.callback_secret
Headers(payload, request) ==
    IF HasSecret(request)
    THEN [name \in {"Content-Type", "X-Webhook-Signature"} |->
             IF name = "Content-Type" THEN "application/json"
             ELSE create_webhook_signature(payload, request.callback_secret[1])]
    ELSE [name \in {"Content-Type"} |-> "application/json"]

\* WebhookDelivery(...) of the success path
SuccessDelivery(rid, request, payload, outcome, attempt) ==
    [request_id |-> rid,
     webhook_url |-> request.callback_webhook,
     payload |-> payload,
     status_code |-> outcome,
     response_body |-> Some("response.text[:1000]"),
     error |-> None,
     retry_count |-> attempt]

\* a failure row filed under the first request of the table
FailureDeliveryOfFirst(rid, request, payload, outcome, attempt) ==
    [request_id |-> 1,
     webhook_url |-> request.callback_webhook,
     payload |-> payload,
     status_code |-> None,
     response_body |-> None,
     error |-> Some("error_msg[:1000]"),
     retry_count |-> attempt]

\* WebhookDelivery(...) of the except path: status_code=None, error=str(e)
FailureDelivery(rid, request, payload, outcome, attempt) ==
    [request_id |-> rid,
     webhook_url |-> request.callback_webhook,
     payload |-> payload,
     status_code |-> None,
     response_body |-> None,
     error |-> Some("error_msg[:1000]"),
     retry_count |-> attempt]

\* request.state = "callback_sent"; request.callback_sent_at = utcnow().
\* The UPDATE carries the columns whose value differs from the loaded one:
\* state is left as it is in the table when the session loaded
\* "callback_sent" already.
SuccessUpdate(request, loaded_state, t) ==
    [request EXCEPT
        !.state = IF loaded_state = Some("callback_sent")
                  THEN @ ELSE "callback_sent",
        !.callback_sent_at = Some(t)]

\* a final failure that leaves the state as it is
FinalFailureUpdateForgotten(request) == request

\* request.state = "callback_failed" on an expired instance
FinalFailureUpdate(request) ==
    [request EXCEPT !.state = "callback_failed"]

\* a commit without db.add(delivery)
AddDeliveryForgotten(rows, delivery) == rows

\* db.add(delivery) followed by db.commit()
AddDelivery(rows, delivery) == rows (+) SetToBag({delivery})

\* a loop that gives up one attempt early
HasMoreAttemptsButOne(attempt) == attempt < max_retries - 2

\* if attempt < max_retries - 1
HasMoreAttempts(attempt) == attempt < max_retries - 1

\* a backoff that follows the comment "2s, 4s, 8s"
BackoffFromTwo(attempt) == 2 ^ (attempt + 1)

\* await asyncio.sleep(2 ** attempt)
Backoff(attempt) == 2 ^ attempt

NoTask == [pc |-> "none", request_id |-> 0, attempt |-> 0,
           payload |-> None, headers |-> None,
           loaded_state |-> None, received |-> None, sleep |-> None]

\* no delivery row has been inspected
NoInspection ==
    [inspected |-> FALSE, status_code |-> None,
     is_success |-> FALSE, is_retriable |-> FALSE]

\* the settings that services/email/factory.py reads
EmailVariables ==
    {"EMAIL_ENABLED", "EMAIL_PROVIDER", "RESEND_API_KEY", "RESEND_FROM_EMAIL",
     "SENDGRID_API_KEY", "SENDGRID_FROM_EMAIL"}

\* send_notification_email has not been called
NoEmail == [called |-> FALSE, environ |-> [n \in EmailVariables |-> ""],
            provider_outcome |-> "none", raised |-> None, returned |-> None]

\* no signature function has been used
NoVerification ==
    [payload |-> EmptyDict, secret |-> <<>>, signature |-> None,
     with_payload |-> EmptyDict, with_secret |-> <<>>,
     outcome |-> [raised |-> None, returned |-> None]]

SetCall(h, c) == [calls EXCEPT ![h] = c]

SetTask(h, t) == [tasks EXCEPT ![h] = t]

\* a handler that catches whatever is raised, as a bare except does
ExceptCatchesAll(error) == TRUE

\* except Exception as e: asyncio.CancelledError derives from BaseException
\* (the annotations of the repository need Python 3.10), so the handler does
\* not run for it
ExceptCatches(error) == error # "CancelledError"

\* a task ended by CancelledError at an await: what is left to see is the
\* attempt it was in and the sleep it was in, if any
Cancelled(t) == [NoTask EXCEPT !.pc = "cancelled", !.request_id = t.request_id,
                               !.attempt = t.attempt, !.sleep = t.sleep]

\* a task that has returned: its locals are gone
Returned(t) == [NoTask EXCEPT !.pc = "done", !.request_id = t.request_id]

----------------------------------------------------------------------------
Init ==
    /\ consultation_requests = <<>>
    /\ webhook_deliveries = EmptyBag
    /\ calls = <<>>
    /\ tasks = <<>>
    /\ now = 1
    /\ verification = NoVerification
    /\ inspection = NoInspection
    /\ api_keys = <<>>
    /\ agent_calls = <<>>
    /\ email = NoEmail

\* a deadline counted from the epoch instead of from the creation time
TimeoutAtFromEpoch(utcnow, timeout_minutes) ==
    IF timeout_minutes = None THEN None ELSE Some(timeout_minutes[1])

\* timeout_at = None; if request_data.timeout_minutes:
\*     timeout_at = datetime.utcnow() + timedelta(minutes=timeout_minutes)
\* (the schema admits null and 1..10080, so the test is a test for null)
TimeoutAt(utcnow, timeout_minutes) ==
    IF timeout_minutes = None THEN None ELSE Some(utcnow + timeout_minutes[1])

\* db_request = ConsultationRequest(...), as the INSERT and the refresh
\* leave it
NewRequest(url, secret, metadata, timeout_minutes) ==
    [state |-> "pending",
     callback_webhook |-> url,
     callback_secret |-> secret,
     timeout_at |-> TimeoutAt(now, timeout_minutes),
     metadata |-> Some(OrEmptyDict(metadata)),
     response |-> None,
     responded_by |-> None,
     responded_at |-> None,
     callback_sent_at |-> None]

\* POST /api/v1/requests with the given callback_webhook, callback_secret,
\* metadata and timeout_minutes
create_request_full(url, secret, metadata, timeout_minutes) ==
    /\ Len(consultation_requests) < MaxRequests
    /\ consultation_requests' = Append(consultation_requests,
            NewRequest(url, secret, metadata, timeout_minutes))
    /\ UNCHANGED <<webhook_deliveries, calls, tasks, now, other_services>>

\* POST /api/v1/requests with the given callback_webhook, callback_secret
\* and metadata, and "timeout_minutes": null
create_request_with(url, secret, metadata) ==
    create_request_full(url, secret, metadata, None)

\* POST /api/v1/requests without callback_secret and metadata
create_request ==
    \E url \in WebhookUrls : create_request_with(url, None, None)

\* POST /api/v1/requests/{request_id}/respond, up to the guards:
\* the SELECT of the row, the 404 and the 400
respond_query_on(rid) ==
    /\ Len(calls) < MaxCalls
    /\ LET base == [request_id |-> rid]
           call ==
             IF ~RequestExists(rid)
             THEN base @@ [pc |-> "done", result |-> Some(NotFoundResult)]
             ELSE IF ~IsPending(consultation_requests[rid])
             THEN base @@ [pc |-> "done",
                           result |-> Some([status_code |-> 400,
                                            detail |-> ConflictDetail(consultation_requests[rid]),
                                            body |-> None])]
             ELSE base @@ [pc |-> "update", result |-> None]
       IN  /\ calls' = Append(calls, call)
           /\ tasks' = Append(tasks, NoTask)
    /\ UNCHANGED <<consultation_requests, webhook_deliveries, now, other_services>>

\* a respond call on any request id
respond_query == \E rid \in 1..MaxRequests : respond_query_on(rid)

\* respond_to_request after the guards: the assignments, db.commit(),
\* db.refresh(request), background_tasks.add_task and the return. The
\* session loaded the row as pending with response NULL, so the UPDATE
\* carries response, responded_by, responded_at and state; the refresh
\* follows the commit at once and reads the row back.
respond_commit(h) ==
    /\ calls[h].pc = "update"
    /\ LET rid == calls[h].request_id
           who == ResponderOf(h)
           new == RespondUpdate(consultation_requests[rid], who[1], who[2], now)
           request == [consultation_requests[rid] EXCEPT
                          !.response = new.response,
                          !.responded_by = new.responded_by,
                          !.responded_at = new.responded_at,
                          !.state = new.state]
       IN  /\ consultation_requests' =
                 [consultation_requests EXCEPT ![rid] = request]
           /\ calls' = SetCall(h, [calls[h] EXCEPT
                   !.pc = "done",
                   !.result = Some([status_code |-> 200,
                                    detail |-> <<>>,
                                    body |-> Some(ResponseModel(rid, request))])])
           /\ tasks' = IF HasWebhook(request)
                       THEN SetTask(h, [NoTask EXCEPT !.pc = "scheduled",
                                                      !.request_id = rid])
                       ELSE tasks
    /\ now' = now + 1
    /\ UNCHANGED <<webhook_deliveries, other_services>>

\* call_agent_webhook up to the first await: the SELECT, the guard, the
\* payload, and the start of attempt 0
task_start(h) ==
    /\ tasks[h].pc = "scheduled"
    /\ LET rid == tasks[h].request_id
       IN  tasks' =
             IF ~RequestExists(rid) \/ ~HasWebhook(consultation_requests[rid])
             THEN SetTask(h, Returned(tasks[h]))
             ELSE SetTask(h, [tasks[h] EXCEPT
                     !.pc = "posting",
                     !.attempt = 0,
                     !.payload = Some(BuildPayload(rid, consultation_requests[rid])),
                     !.headers = Some(Headers(BuildPayload(rid, consultation_requests[rid]),
                                              consultation_requests[rid])),
                     !.loaded_state = Some(consultation_requests[rid].state)])
    /\ UNCHANGED <<consultation_requests, webhook_deliveries, calls, now, other_services>>

\* call_agent_webhook: client.post returns or raises, and the attempt is
\* recorded. 2xx: the success row, state and callback_sent_at in one commit.
\* Otherwise (raise_for_status or a transport error): the failure row in a
\* commit of its own, which expires the loaded row.
task_post_return(h) ==
    /\ tasks[h].pc = "posting"
    /\ \E outcome \in Outcomes :
         LET rid == tasks[h].request_id
             request == consultation_requests[rid]
             attempt == tasks[h].attempt
             payload == tasks[h].payload[1]
         IN  IF Is2xx(outcome)
                THEN /\ webhook_deliveries' = AddDelivery(webhook_deliveries,
                            SuccessDelivery(rid, request, payload, outcome, attempt))
                     /\ consultation_requests' =
                          [consultation_requests EXCEPT
                             ![rid] = SuccessUpdate(request, tasks[h].loaded_state, now)]
                     /\ now' = now + 1
                     /\ tasks' = SetTask(h, Returned(tasks[h]))
                ELSE /\ webhook_deliveries' = AddDelivery(webhook_deliveries,
                            FailureDelivery(rid, request, payload, outcome, attempt))
                     /\ tasks' = SetTask(h, [tasks[h] EXCEPT
                            !.received = outcome,
                            !.loaded_state = None,
                            !.sleep = IF HasMoreAttempts(attempt)
                                      THEN Some(Backoff(attempt)) ELSE None,
                            !.pc = IF HasMoreAttempts(attempt)
                                   THEN "sleeping" ELSE "failing"])
                     /\ UNCHANGED <<consultation_requests, now>>
    /\ UNCHANGED <<calls, other_services>>

\* call_agent_webhook: asyncio.sleep(2 ** attempt) ends and the next
\* attempt starts; reading request.callback_webhook reloads the row that
\* the commit expired
task_wake(h) ==
    /\ tasks[h].pc = "sleeping"
    /\ tasks' = SetTask(h, [tasks[h] EXCEPT
          !.pc = "posting",
          !.attempt = @ + 1,
          !.received = None,
          !.sleep = None,
          !.loaded_state = Some(consultation_requests[tasks[h].request_id].state)])
    /\ UNCHANGED <<consultation_requests, webhook_deliveries, calls, now, other_services>>

\* call_agent_webhook: request.state = "callback_failed"; db.commit()
task_final_failure(h) ==
    /\ tasks[h].pc = "failing"
    /\ consultation_requests' =
         [consultation_requests EXCEPT
            ![tasks[h].request_id].state =
                FinalFailureUpdate(consultation_requests[tasks[h].request_id]).state]
    /\ tasks' = SetTask(h, Returned(tasks[h]))
    /\ UNCHANGED <<webhook_deliveries, calls, now, other_services>>

Next ==
    \/ create_request
    \/ respond_query
    \/ \E h \in 1..Len(calls) : respond_commit(h)
    \/ \E h \in 1..Len(calls) : task_start(h)
    \/ \E h \in 1..Len(calls) : task_post_return(h)
    \/ \E h \in 1..Len(calls) : task_wake(h)
    \/ \E h \in 1..Len(calls) : task_final_failure(h)

Spec == Init /\ [][Next]_vars

----------------------------------------------------------------------------
(* The respond handler at the grain of its database round trips: between   *)
(* db.commit() and db.refresh(request) other sessions commit.              *)

\* respond_to_request: the assignments and db.commit()
respond_update(h) ==
    /\ calls[h].pc = "update"
    /\ LET rid == calls[h].request_id
           who == ResponderOf(h)
           new == RespondUpdate(consultation_requests[rid], who[1], who[2], now)
       IN  /\ consultation_requests' =
                 [consultation_requests EXCEPT
                     ![rid] = [@ EXCEPT !.response = new.response,
                                        !.responded_by = new.responded_by,
                                        !.responded_at = new.responded_at,
                                        !.state = new.state]]
           /\ calls' = SetCall(h, [calls[h] EXCEPT !.pc = "refresh"])
    /\ now' = now + 1
    /\ UNCHANGED <<webhook_deliveries, tasks, other_services>>

\* respond_to_request: db.refresh(request), background_tasks.add_task and
\* the return of the refreshed row
respond_refresh(h) ==
    /\ calls[h].pc = "refresh"
    /\ LET rid == calls[h].request_id
           request == consultation_requests[rid]
       IN  /\ calls' = SetCall(h, [calls[h] EXCEPT
                   !.pc = "done",
                   !.result = Some([status_code |-> 200,
                                    detail |-> <<>>,
                                    body |-> Some(ResponseModel(rid, request))])])
           /\ tasks' = IF HasWebhook(request)
                       THEN SetTask(h, [NoTask EXCEPT !.pc = "scheduled",
                                                      !.request_id = rid])
                       ELSE tasks
    /\ UNCHANGED <<consultation_requests, webhook_deliveries, now, other_services>>

NextRefresh ==
    \/ create_request
    \/ respond_query
    \/ \E h \in 1..Len(calls) : respond_update(h)
    \/ \E h \in 1..Len(calls) : respond_refresh(h)
    \/ \E h \in 1..Len(calls) : task_start(h)
    \/ \E h \in 1..Len(calls) : task_post_return(h)
    \/ \E h \in 1..Len(calls) : task_wake(h)
    \/ \E h \in 1..Len(calls) : task_final_failure(h)

SpecRefresh == Init /\ [][NextRefresh]_vars

----------------------------------------------------------------------------
(* One request created with callback_secret and metadata, and the calls    *)
(* made on it.                                                             *)

\* POST /api/v1/requests, the first request of the table
create_request_signed ==
    /\ consultation_requests = <<>>
    /\ \E url \in WebhookUrls, input \in SignedInputs :
           create_request_with(url, input[1], input[2])

NextSigned ==
    \/ create_request_signed
    \/ respond_query
    \/ \E h \in 1..Len(calls) : respond_commit(h)
    \/ \E h \in 1..Len(calls) : task_start(h)
    \/ \E h \in 1..Len(calls) : task_post_return(h)
    \/ \E h \in 1..Len(calls) : task_wake(h)
    \/ \E h \in 1..Len(calls) : task_final_failure(h)

SpecSigned == Init /\ [][NextSigned]_vars

----------------------------------------------------------------------------
(* The signature functions of core/security.py applied to payloads,        *)
(* secrets and presented signatures. The functions keep no state, so each  *)
(* behaviour is one use of them.                                           *)

PayloadKeys == {"a", "b"}

PayloadValues == {"1", "2"}

\* the dicts of up to two items
Payloads ==
    {<<>>}
    \cup {<< <<k, v>> >> : k \in PayloadKeys, v \in PayloadValues}
    \cup {<< <<k[1], v[1]>>, <<k[2], v[2]>> >> :
             k \in {x \in PayloadKeys \X PayloadKeys : x[1] # x[2]},
             v \in PayloadValues \X PayloadValues}

\* secrets: "", "k", "j", and "k" and "" followed by a NUL character
Secrets == {<<>>, <<"k">>, <<"j">>, <<"k", NUL>>, <<NUL>>}

\* what a caller may present as the signature of payload under secret: the
\* signature itself, None, the empty string, the digest without the
\* prefix, a digest of the wrong length, a str with a non-ASCII character
PresentedSignatures(payload, secret) ==
    {Some(create_webhook_signature(payload, secret)),
     None,
     Some(""),
     Some(hexdigest(secret, json_dumps(payload))),
     Some("sha256=0f")}
    \cup {Some(x) : x \in NonAsciiStrings}

\* create_webhook_signature(p, s), then verify_webhook_signature of that
\* signature with payload p2 and secret s2
sign_then_verify ==
    /\ verification = NoVerification
    /\ \E p \in Payloads, s \in Secrets, p2 \in Payloads, s2 \in Secrets :
         LET signature == create_webhook_signature(p, s)
         IN  verification' =
                [payload |-> p, secret |-> s, signature |-> Some(signature),
                 with_payload |-> p2, with_secret |-> s2,
                 outcome |-> verify_webhook_signature(p2, Some(signature), s2)]
    /\ UNCHANGED <<lifecycle, inspection, api_keys, agent_calls, email>>

\* verify_webhook_signature(p, signature, s) for a presented signature
verify_presented ==
    /\ verification = NoVerification
    /\ \E p \in Payloads, s \in Secrets :
         \E signature \in PresentedSignatures(p, s) :
            verification' =
                [payload |-> p, secret |-> s, signature |-> signature,
                 with_payload |-> p, with_secret |-> s,
                 outcome |-> verify_webhook_signature(p, signature, s)]
    /\ UNCHANGED <<lifecycle, inspection, api_keys, agent_calls, email>>

NextCodec ==
    \/ sign_then_verify
    \/ verify_presented

SpecCodec == Init /\ [][NextCodec]_vars

----------------------------------------------------------------------------
(* The timeout sweeper asks the service to expire a request.               *)

\* what FastAPI answers when no route matches
NoRoute == [status_code |-> 404, detail |-> <<"Not Found">>, body |-> None]

\* an expire of request rid arrives: api_router has the routes of auth,
\* requests and api_keys, none of them expires a request, and no function
\* of the service writes state = "timeout"; no handler runs
expire ==
    /\ Len(calls) < MaxCalls
    /\ \E rid \in 1..MaxRequests :
         /\ calls' = Append(calls, [request_id |-> rid, pc |-> "done",
                                    result |-> Some(NoRoute)])
         /\ tasks' = Append(tasks, NoTask)
    /\ UNCHANGED <<consultation_requests, webhook_deliveries, now, other_services>>

NextExpire ==
    \/ create_request
    \/ respond_query
    \/ expire
    \/ \E h \in 1..Len(calls) : respond_commit(h)
    \/ \E h \in 1..Len(calls) : task_start(h)
    \/ \E h \in 1..Len(calls) : task_post_return(h)
    \/ \E h \in 1..Len(calls) : task_wake(h)
    \/ \E h \in 1..Len(calls) : task_final_failure(h)

SpecExpire == Init /\ [][NextExpire]_vars

----------------------------------------------------------------------------
(* The lifecycle of a request with a deadline, and time passing. *)

\* "timeout_minutes" of a POST /api/v1/requests: null, or minutes
TimeoutMinutes == {None, Some(1)}

\* POST /api/v1/requests with a timeout_minutes, into an empty table
create_request_deadline ==
    /\ consultation_requests = <<>>
    /\ \E url \in WebhookUrls, timeout_minutes \in TimeoutMinutes :
          create_request_full(url, None, None, timeout_minutes)

\* a minute passes while a request waits for its answer; the clock is
\* followed until the deadline of the request has just elapsed
tick ==
    /\ \E rid \in DOMAIN consultation_requests :
          /\ consultation_requests[rid].state = "pending"
          /\ consultation_requests[rid].timeout_at # None
          /\ now <= consultation_requests[rid].timeout_at[1]
    /\ now' = now + 1
    /\ UNCHANGED <<consultation_requests, webhook_deliveries, calls, tasks,
                   other_services>>

NextTimeout ==
    \/ create_request_deadline
    \/ respond_query
    \/ \E h \in DOMAIN calls : respond_commit(h)
    \/ \E h \in DOMAIN tasks : task_start(h)
    \/ \E h \in DOMAIN tasks : task_post_return(h)
    \/ \E h \in DOMAIN tasks : task_wake(h)
    \/ \E h \in DOMAIN tasks : task_final_failure(h)
    \/ tick

SpecTimeout == Init /\ [][NextTimeout]_vars

----------------------------------------------------------------------------
(* Two requests, each answered by one respond call, and their delivery     *)
(* sequences side by side.                                                 *)

\* POST /api/v1/requests, for the first two requests of the table
create_request_pair ==
    /\ Len(consultation_requests) < 2
    /\ \E url \in WebhookUrls :
          consultation_requests' = Append(consultation_requests,
                                          NewRequest(url, None, None, None))
    /\ UNCHANGED <<webhook_deliveries, calls, tasks, now, other_services>>

\* a respond call on one of the two requests, which had none before
respond_query_pair ==
    \E rid \in DOMAIN consultation_requests :
        /\ \A h \in DOMAIN calls : calls[h].request_id # rid
        /\ respond_query_on(rid)

NextPair ==
    \/ create_request_pair
    \/ respond_query_pair
    \/ \E h \in DOMAIN calls : respond_commit(h)
    \/ \E h \in DOMAIN tasks : task_start(h)
    \/ \E h \in DOMAIN tasks : task_post_return(h)
    \/ \E h \in DOMAIN tasks : task_wake(h)
    \/ \E h \in DOMAIN tasks : task_final_failure(h)

SpecPair == Init /\ [][NextPair]_vars

----------------------------------------------------------------------------
(* The same two requests, with the process shutting down while sequences   *)
(* are suspended.                                                          *)

\* call_agent_webhook cancelled at an await, client.post or asyncio.sleep:
\* CancelledError is raised there. Inside the try it reaches the handler
\* only if the except clause catches it; inside the handler, where the
\* sleep is, nothing catches it.
cancel(h) ==
    /\ tasks[h].pc \in {"posting", "sleeping"}
    /\ LET rid == tasks[h].request_id
       IN  webhook_deliveries' =
             IF tasks[h].pc = "posting" /\ ExceptCatches("CancelledError")
             THEN AddDelivery(webhook_deliveries,
                    FailureDelivery(rid, consultation_requests[rid],
                                    tasks[h].payload[1], None, tasks[h].attempt))
             ELSE webhook_deliveries
    /\ tasks' = SetTask(h, Cancelled(tasks[h]))
    /\ UNCHANGED <<consultation_requests, calls, now, other_services>>

NextCancel ==
    \/ create_request_pair
    \/ respond_query_pair
    \/ \E h \in DOMAIN calls : respond_commit(h)
    \/ \E h \in DOMAIN tasks : task_start(h)
    \/ \E h \in DOMAIN tasks : task_post_return(h)
    \/ \E h \in DOMAIN tasks : task_wake(h)
    \/ \E h \in DOMAIN tasks : task_final_failure(h)
    \/ \E h \in DOMAIN tasks : cancel(h)

SpecCancel == Init /\ [][NextCancel]_vars

----------------------------------------------------------------------------
(* The same two requests, with a database that may refuse a commit.        *)

\* call_agent_webhook: client.post returns a 2xx and db.commit() of the
\* success path raises (the connection is lost at COMMIT, or the flush is
\* refused). The commit rolls back: the success row and the state change
\* are gone. The raise is inside the try, so except Exception takes it as a
\* failed attempt: it adds a failure row and commits again. That commit
\* goes through on a fresh transaction, or raises in its turn (a session
\* that awaits a rollback, a database still away) and ends the task.
task_recording_fails(h) ==
    /\ tasks[h].pc = "posting"
    /\ \E outcome \in {o \in Outcomes : Is2xx(o)}, handler_commits \in BOOLEAN :
         LET rid == tasks[h].request_id
             attempt == tasks[h].attempt
         IN  IF handler_commits
             THEN /\ webhook_deliveries' = AddDelivery(webhook_deliveries,
                         FailureDelivery(rid, consultation_requests[rid],
                                         tasks[h].payload[1], outcome, attempt))
                  /\ tasks' = SetTask(h, [tasks[h] EXCEPT
                         !.received = outcome,
                         !.loaded_state = None,
                         !.sleep = IF HasMoreAttempts(attempt)
                                   THEN Some(Backoff(attempt)) ELSE None,
                         !.pc = IF HasMoreAttempts(attempt)
                                THEN "sleeping" ELSE "failing"])
             ELSE /\ webhook_deliveries' = webhook_deliveries
                  /\ tasks' = SetTask(h, [Returned(tasks[h]) EXCEPT !.pc = "raised"])
    /\ UNCHANGED <<consultation_requests, calls, now, other_services>>

NextRecording ==
    \/ create_request_pair
    \/ respond_query_pair
    \/ \E h \in DOMAIN calls : respond_commit(h)
    \/ \E h \in DOMAIN tasks : task_start(h)
    \/ \E h \in DOMAIN tasks : task_post_return(h)
    \/ \E h \in DOMAIN tasks : task_recording_fails(h)
    \/ \E h \in DOMAIN tasks : task_wake(h)
    \/ \E h \in DOMAIN tasks : task_final_failure(h)

SpecRecording == Init /\ [][NextRecording]_vars

----------------------------------------------------------------------------
(* The properties of a WebhookDelivery row, read for one row per           *)
(* behaviour.                                                              *)

\* column status_code: NULL or an HTTP status
StatusCodeColumn == {None} \cup {Some(c) : c \in 100..599}

\* delivery.is_success and delivery.is_retriable read on a row
inspect_delivery ==
    /\ inspection = NoInspection
    /\ \E status_code \in StatusCodeColumn :
         LET delivery == [request_id |-> 1, status_code |-> status_code]
         IN  inspection' = [inspected |-> TRUE,
                            status_code |-> status_code,
                            is_success |-> is_success(delivery),
                            is_retriable |-> is_retriable(delivery)]
    /\ UNCHANGED <<lifecycle, verification, api_keys, agent_calls, email>>

NextInspect == inspect_delivery

SpecInspect == Init /\ [][NextInspect]_vars

----------------------------------------------------------------------------
(* API keys: their creation and revocation by users, and the               *)
(* create_request calls that agents make with them.                        *)

\* what secrets.token_urlsafe(32) may return
RawKeys == {"key-a", "key-b"}

\* hashlib.sha256(api_key.encode()).hexdigest()
hash_api_key(api_key) == "sha256(" \o api_key \o ")"

\* the Authorization header of a call, as authorization.split() cuts it:
\* absent, well formed, another scheme, one word, three words
Authorizations ==
    {None}
    \cup {Some(<<"Bearer", k>>) : k \in RawKeys}
    \cup {Some(<<"bearer", "key-a">>), Some(<<"Basic", "key-a">>),
          Some(<<"Bearer">>), Some(<<"Bearer", "key-a", "key-b">>)}

\* scheme.lower()
Lower(scheme) ==
    IF scheme = "Bearer" THEN "bearer"
    ELSE IF scheme = "Basic" THEN "basic"
    ELSE IF scheme = "Resend" THEN "resend"
    ELSE scheme

\* a lookup by hash alone
KeysWithHash(key_hash) ==
    {i \in DOMAIN api_keys : api_keys[i].key_hash = key_hash}

\* db.query(APIKey).filter(APIKey.key_hash == key_hash,
\*                         APIKey.is_active == True)
ActiveKeysWithHash(key_hash) ==
    {i \in DOMAIN api_keys :
        api_keys[i].key_hash = key_hash /\ api_keys[i].is_active = TRUE}

Unauthorized(detail) == [status_code |-> 401, detail |-> detail, api_key |-> None]

\* verify_api_key_dependency: the HTTPException it raises, or the key row
verify_api_key_dependency(authorization) ==
    IF authorization = None
    THEN Unauthorized("API key required")
    ELSE LET words == authorization[1]
         IN  IF Len(words) # 2 \/ Lower(words[1]) # "bearer"
             THEN Unauthorized("Invalid authorization header format. Use: Bearer <api_key>")
             ELSE LET found == ActiveKeysWithHash(hash_api_key(words[2]))
                  IN  IF found = {}
                      THEN Unauthorized("Invalid or inactive API key")
                      ELSE [status_code |-> 200, detail |-> "",
                            api_key |-> Some(CHOOSE i \in found : TRUE)]

\* POST /api/v1/api-keys: a fresh key, stored as its hash, active
create_api_key ==
    /\ Len(api_keys) < Cardinality(RawKeys)
    /\ \E raw_key \in RawKeys :
          /\ \A i \in DOMAIN api_keys : api_keys[i].key_hash # hash_api_key(raw_key)
          /\ api_keys' = Append(api_keys, [key_hash |-> hash_api_key(raw_key),
                                          is_active |-> TRUE])
    /\ UNCHANGED <<lifecycle, verification, inspection, agent_calls, email>>

\* PATCH /api/v1/api-keys/{key_id} on an existing key: is_active is
\* assigned when the body carries it
update_api_key ==
    /\ \E key_id \in DOMAIN api_keys, is_active \in {None, Some(TRUE), Some(FALSE)} :
          api_keys' = [api_keys EXCEPT
                          ![key_id].is_active =
                              IF is_active # None THEN is_active[1] ELSE @]
    /\ UNCHANGED <<lifecycle, verification, inspection, agent_calls, email>>

\* POST /api/v1/requests arrives: the dependency verify_api_key_dependency
\* runs before the handler
create_request_verify ==
    /\ Len(agent_calls) < MaxCalls
    /\ \E authorization \in Authorizations :
         LET verified == verify_api_key_dependency(authorization)
         IN  agent_calls' = Append(agent_calls,
                [authorization |-> authorization,
                 pc |-> IF verified.status_code = 401 THEN "done" ELSE "authorized",
                 status_code |-> IF verified.status_code = 401 THEN Some(401) ELSE None,
                 detail |-> verified.detail,
                 api_key |-> verified.api_key,
                 request_id |-> None])
    /\ UNCHANGED <<lifecycle, verification, inspection, api_keys, email>>

\* POST /api/v1/requests, the handler: the INSERT and the 201
create_request_authorized(c) ==
    /\ agent_calls[c].pc = "authorized"
    /\ \E url \in WebhookUrls :
          consultation_requests' = Append(consultation_requests,
                                          NewRequest(url, None, None, None))
    /\ agent_calls' = [agent_calls EXCEPT
                          ![c].pc = "done",
                          ![c].status_code = Some(201),
                          ![c].request_id = Some(Len(consultation_requests) + 1)]
    /\ UNCHANGED <<webhook_deliveries, calls, tasks, now,
                   verification, inspection, api_keys, email>>

NextKeys ==
    \/ create_api_key
    \/ update_api_key
    \/ create_request_verify
    \/ \E c \in DOMAIN agent_calls : create_request_authorized(c)

SpecKeys == Init /\ [][NextKeys]_vars

----------------------------------------------------------------------------
(* send_notification_email, called once per behaviour in an environment    *)
(* that configures email one way or another.                               *)

\* the fields that class Settings declares; the settings object has no
\* other attribute
SettingsFields ==
    {"APP_NAME", "VERSION", "ENVIRONMENT", "DEBUG", "API_V1_PREFIX",
     "SECRET_KEY", "ALGORITHM", "ACCESS_TOKEN_EXPIRE_MINUTES",
     "REFRESH_TOKEN_EXPIRE_DAYS", "DATABASE_URL", "REDIS_URL", "CORS_ORIGINS"}

\* settings.<name> can be read
HasAttribute(name) == name \in SettingsFields

\* the environment variables of a deployment that concern email; "" is a
\* variable that is not set
Environments ==
    {environ \in [EmailVariables -> {"", "true", "false", "resend", "Resend",
                                     "sendgrid", "smtp", "secret", "from@x"}] :
        /\ environ["EMAIL_ENABLED"] \in {"", "true", "false"}
        /\ environ["EMAIL_PROVIDER"] \in {"", "resend", "Resend", "sendgrid", "smtp"}
        /\ environ["RESEND_API_KEY"] \in {"", "secret"}
        /\ environ["SENDGRID_API_KEY"] \in {"", "secret"}
        /\ environ["RESEND_FROM_EMAIL"] \in {"", "from@x"}
        /\ environ["SENDGRID_FROM_EMAIL"] \in {"", "from@x"}}

\* what the HTTP call of a provider comes to
ProviderOutcomes == {"success", "error_status", "exception"}

ProviderRaised(error) == [raised |-> Some(error), provider |-> None]

ProviderReturned(provider) == [raised |-> None, provider |-> provider]

\* get_email_provider with an empty cache: the exception it raises, or the
\* provider (None when email is disabled) it returns
get_email_provider(environ) ==
    IF ~HasAttribute("EMAIL_ENABLED")
    THEN ProviderRaised("AttributeError")
    ELSE IF environ["EMAIL_ENABLED"] # "true"
    THEN ProviderReturned(None)
    ELSE IF ~HasAttribute("EMAIL_PROVIDER")
    THEN ProviderRaised("AttributeError")
    ELSE LET provider_type == Lower(environ["EMAIL_PROVIDER"])
         IN  IF provider_type = "resend"
             THEN IF ~HasAttribute("RESEND_API_KEY") \/ ~HasAttribute("RESEND_FROM_EMAIL")
                  THEN ProviderRaised("AttributeError")
                  ELSE IF environ["RESEND_API_KEY"] = "" \/ environ["RESEND_FROM_EMAIL"] = ""
                  THEN ProviderRaised("ValueError")
                  ELSE ProviderReturned(Some("resend"))
             ELSE IF provider_type = "sendgrid"
             THEN IF ~HasAttribute("SENDGRID_API_KEY") \/ ~HasAttribute("SENDGRID_FROM_EMAIL")
                  THEN ProviderRaised("AttributeError")
                  ELSE IF environ["SENDGRID_API_KEY"] = "" \/ environ["SENDGRID_FROM_EMAIL"] = ""
                  THEN ProviderRaised("ValueError")
                  ELSE ProviderReturned(Some("sendgrid"))
             ELSE ProviderRaised("ValueError")

\* provider.send_email: True on the status of success (200 for Resend, 202
\* for SendGrid), False on another status and on an exception, which the
\* provider catches itself
send_email(provider, provider_outcome) == provider_outcome = "success"

\* send_notification_email: get_email_provider() is called before the try
send_notification_email ==
    /\ email = NoEmail
    /\ \E environ \in Environments, provider_outcome \in ProviderOutcomes :
         LET got == get_email_provider(environ)
         IN  email' = [called |-> TRUE,
                       environ |-> environ,
                       provider_outcome |-> provider_outcome,
                       raised |-> got.raised,
                       returned |->
                           IF got.raised # None THEN None
                           ELSE IF got.provider = None THEN Some(FALSE)
                           ELSE Some(send_email(got.provider[1], provider_outcome))]
    /\ UNCHANGED <<lifecycle, verification, inspection, api_keys, agent_calls>>

NextEmail == send_notification_email

SpecEmail == Init /\ [][NextEmail]_vars

----------------------------------------------------------------------------
(* The lifecycle with two respond calls, which may race for one request,   *)
(* under a running server: the event loop resumes every handler and every  *)
(* background task that can go on, each client.post returns or raises      *)
(* within its 30 s timeout, and each asyncio.sleep ends.                   *)

\* the first two respond calls
respond_query_two ==
    /\ Len(calls) < 2
    /\ respond_query

\* the next step of the webhook task of call h
sequence_step(h) ==
    /\ h \in DOMAIN tasks
    /\ \/ task_start(h)
       \/ task_post_return(h)
       \/ task_wake(h)
       \/ task_final_failure(h)

\* the rest of the handler of call h
handler_step(h) ==
    /\ h \in DOMAIN calls
    /\ respond_commit(h)

NextLive ==
    \/ create_request
    \/ respond_query_two
    \/ \E h \in DOMAIN calls : respond_commit(h)
    \/ \E h \in DOMAIN tasks : task_start(h)
    \/ \E h \in DOMAIN tasks : task_post_return(h)
    \/ \E h \in DOMAIN tasks : task_wake(h)
    \/ \E h \in DOMAIN tasks : task_final_failure(h)

SpecLive ==
    /\ Init
    /\ [][NextLive]_vars
    /\ \A h \in 1..MaxCalls : WF_vars(sequence_step(h)) /\ WF_vars(handler_step(h))

----------------------------------------------------------------------------
(* Properties *)

RequestIds == 1..Len(consultation_requests)

CallIds == 1..Len(calls)

NumRows(rid) == BagCardinality(RowsOf(rid))

\* the rows of request rid with retry_count = k, counted with multiplicity
NumRowsWithRetry(rid, k) ==
    BagCardinality([d \in {x \in DOMAIN RowsOf(rid) : x.retry_count = k}
                       |-> webhook_deliveries[d]])

\* a delivery sequence is in flight from its first HTTP call to its return
InFlight(h) == tasks[h].pc \in {"posting", "sleeping", "failing"}

Accepted(h) == calls[h].result # None /\ calls[h].result[1].status_code = 200

Rejected(h) == calls[h].result # None /\ calls[h].result[1].status_code = 400

\* the step in which a respond call arrives at a request that is not pending
C1_RejectingStep ==
    \A rid \in RequestIds :
        (/\ Len(calls') = Len(calls) + 1
         /\ calls'[Len(calls')].request_id = rid
         /\ consultation_requests[rid].state # "pending")
        => /\ calls'[Len(calls')].pc = "done"
           /\ calls'[Len(calls')].result =
                Some([status_code |-> 400,
                      detail |-> <<"Request is already ",
                                   consultation_requests[rid].state,
                                   ", cannot respond">>,
                      body |-> None])
           /\ consultation_requests' = consultation_requests
           /\ webhook_deliveries' = webhook_deliveries
           /\ tasks' = Append(tasks, NoTask)

\* C1: a respond call on a request that is not pending is rejected with an
\* error naming the request's current state; the rejected call changes no
\* field of the request, adds no Delivery row and schedules no webhook task,
\* then or later.
C1_RespondRejectedUnlessPending ==
    /\ [][C1_RejectingStep]_vars
    /\ [](\A h \in CallIds :
            Rejected(h) => calls[h].pc = "done" /\ tasks[h].pc = "none")

\* a call was rejected on a request that holds the response of an earlier call
C1_Witness ==
    \E h \in CallIds :
        /\ Rejected(h)
        /\ RequestExists(calls[h].request_id)
        /\ consultation_requests[calls[h].request_id].response # None
        /\ calls[h].result[1].detail[2] \in {"responded", "callback_sent", "callback_failed"}

\* C2: at most one respond call performs the pending -> responded
\* transition of a request, however the calls interleave.
C2_AtMostOneTransition ==
    \A rid \in RequestIds :
        Cardinality({h \in CallIds : calls[h].request_id = rid /\ Accepted(h)}) <= 1

\* C3: at most one delivery sequence is in flight for a request.
C3_AtMostOneSequenceInFlight ==
    \A rid \in RequestIds :
        Cardinality({h \in CallIds : tasks[h].request_id = rid /\ InFlight(h)}) <= 1

\* C4: a request in callback_failed has exactly 3 Delivery rows, with
\* retry_count 0, 1 and 2, and none of them is a success row.
C4_FailedHasThreeFailureRows ==
    \A rid \in RequestIds :
        consultation_requests[rid].state = "callback_failed" =>
            /\ NumRows(rid) = 3
            /\ \A k \in 0..2 : NumRowsWithRetry(rid, k) = 1
            /\ \A d \in DOMAIN RowsOf(rid) : ~is_success(d)

\* C5: a request in callback_sent has one row per attempt up to the first
\* success: the row with the highest retry_count is the only success row and
\* the retry_count values are 0..n-1, one row each.
C5_SentRowsEndWithSuccess ==
    \A rid \in RequestIds :
        consultation_requests[rid].state = "callback_sent" =>
            \E n \in 1..max_retries :
                /\ NumRows(rid) = n
                /\ \A k \in 0..(n - 1) : NumRowsWithRetry(rid, k) = 1
                /\ \A d \in DOMAIN RowsOf(rid) :
                       is_success(d) <=> d.retry_count = n - 1

\* C6: after an attempt that received an HTTP response with a non-2xx status
\* s, the row written for that attempt records status_code = s.
C6_FailureRowRecordsStatus ==
    \A h \in CallIds :
        (tasks[h].pc \in {"sleeping", "failing"} /\ tasks[h].received # None) =>
            \E d \in DOMAIN RowsOf(tasks[h].request_id) :
                /\ d.retry_count = tasks[h].attempt
                /\ d.status_code = tasks[h].received

\* C7: a request without callback_webhook stays in pending or responded, has
\* no Delivery row and no callback_sent_at, no webhook task makes an HTTP call
\* for it, and it is in responded once a respond call was accepted.
C7_NoWebhookNoDelivery ==
    \A rid \in RequestIds :
        consultation_requests[rid].callback_webhook = None =>
            /\ consultation_requests[rid].state \in {"pending", "responded"}
            /\ consultation_requests[rid].callback_sent_at = None
            /\ NumRows(rid) = 0
            /\ \A h \in CallIds :
                   calls[h].request_id = rid =>
                       /\ ~InFlight(h)
                       /\ Accepted(h) => consultation_requests[rid].state = "responded"

\* a respond call was accepted on a request without callback_webhook
C7_Witness ==
    \E h \in CallIds :
        /\ Accepted(h)
        /\ consultation_requests[calls[h].request_id].callback_webhook = None
        /\ consultation_requests[calls[h].request_id].state = "responded"

C9_SentAtIffCallbackSent ==
    \A rid \in RequestIds :
        (consultation_requests[rid].callback_sent_at # None)
            <=> (consultation_requests[rid].state = "callback_sent")

\* C10: every committed state that shows callback_sent holds a success row
\* of the request, and every one that shows callback_failed holds its
\* failure row with retry_count 2.
C10_TerminalStateHasItsRow ==
    \A rid \in RequestIds :
        /\ consultation_requests[rid].state = "callback_sent" =>
              \E d \in DOMAIN RowsOf(rid) : is_success(d)
        /\ consultation_requests[rid].state = "callback_failed" =>
              \E d \in DOMAIN RowsOf(rid) :
                  ~is_success(d) /\ d.retry_count = max_retries - 1

\* a request is in callback_failed after three failed attempts
C10_Witness ==
    \E rid \in RequestIds :
        /\ consultation_requests[rid].state = "callback_failed"
        /\ NumRows(rid) >= max_retries

\* the transitions of the state machine of a request
AllowedTransitions ==
    {<<"pending", "responded">>, <<"pending", "timeout">>,
     <<"responded", "callback_sent">>, <<"responded", "callback_failed">>}

\* C11: no state transition is reversed: every change of a request's state
\* is pending -> responded, responded -> callback_sent, responded ->
\* callback_failed or pending -> timeout, so a terminal state is never left
\* and no request returns to pending or responded.
C11_NoTransitionReversed ==
    [][\A rid \in RequestIds :
          consultation_requests'[rid].state # consultation_requests[rid].state =>
              <<consultation_requests[rid].state,
                consultation_requests'[rid].state>> \in AllowedTransitions]_vars

\* C12: the result of respond does not depend on the delivery outcome: an
\* accepted call returns success with state responded, its webhook task
\* runs only after the call has returned, and no
\* later step changes the result or removes the response of the request.
C12_RespondResultIndependentOfDelivery ==
    /\ [](\A h \in CallIds :
            /\ Accepted(h) => calls[h].result[1].body[1].state = "responded"
            /\ tasks[h].pc # "none" => calls[h].pc = "done" /\ Accepted(h))
    /\ [][/\ \A h \in CallIds :
               calls[h].result # None => calls'[h].result = calls[h].result
          /\ \A rid \in RequestIds :
               consultation_requests[rid].response # None =>
                   consultation_requests'[rid].response # None]_vars

\* the responses that accepted respond calls committed to request rid
CommittedResponses(rid) ==
    {calls[h].result[1].body[1].response :
        h \in {x \in CallIds : calls[x].request_id = rid /\ Accepted(x)}}

\* the step of task h records an attempt: one more copy of a row
RecordsAttempt(h, d) ==
    /\ tasks[h].pc = "posting"
    /\ tasks'[h] # tasks[h]
    /\ d \in DOMAIN webhook_deliveries'
    /\ CopiesIn(d, webhook_deliveries') = CopiesIn(d, webhook_deliveries) + 1

\* C13: the payload of a delivery sequence is built once, before the first
\* attempt: it is {event: "request.responded", request_id, metadata,
\* response} with the id and the metadata of the request and a response
\* committed by respond, it stays the same for every attempt of the
\* sequence, and every Delivery row of the sequence stores it.
C13_PayloadBuiltOnce ==
    /\ [](\A h \in CallIds :
            InFlight(h) =>
                LET rid == tasks[h].request_id
                    payload == tasks[h].payload[1]
                IN  /\ Len(payload) = 4
                    /\ Get(payload, "event") = "request.responded"
                    /\ Get(payload, "request_id") = ToString(rid)
                    /\ Get(payload, "metadata") = consultation_requests[rid].metadata[1]
                    /\ Get(payload, "response") \in CommittedResponses(rid))
    /\ [][\A h \in CallIds :
            /\ (InFlight(h) /\ tasks'[h].pc # "done") =>
                   tasks'[h].payload = tasks[h].payload
            /\ \A d \in DOMAIN webhook_deliveries' :
                   RecordsAttempt(h, d) =>
                       /\ d.request_id = tasks[h].request_id
                       /\ d.payload = tasks[h].payload[1]]_vars

\* a sequence is at its third attempt with the payload of a request that
\* has metadata, and the two rows written so far store that payload
C13_Witness ==
    \E h \in CallIds :
        /\ tasks[h].pc = "posting"
        /\ tasks[h].attempt = max_retries - 1
        /\ Get(tasks[h].payload[1], "metadata") # EmptyDict
        /\ NumRows(tasks[h].request_id) = 2
        /\ \A d \in DOMAIN RowsOf(tasks[h].request_id) :
               d.payload = tasks[h].payload[1]

\* C14: every HTTP call of a delivery sequence carries X-Webhook-Signature
\* exactly when the request has a callback_secret, the empty string
\* included; the header is the same on every attempt and equals
\* create_webhook_signature(payload, callback_secret).
C14_SignatureIffSecretConfigured ==
    /\ [](\A h \in CallIds :
            tasks[h].pc = "posting" =>
                LET request == consultation_requests[tasks[h].request_id]
                    headers == tasks[h].headers[1]
                IN  /\ ("X-Webhook-Signature" \in DOMAIN headers)
                          <=> (request.callback_secret # None)
                    /\ "X-Webhook-Signature" \in DOMAIN headers =>
                          headers["X-Webhook-Signature"] =
                              create_webhook_signature(tasks[h].payload[1],
                                                       request.callback_secret[1]))
    /\ [][\A h \in CallIds :
            (InFlight(h) /\ tasks'[h].pc # "done") =>
                tasks'[h].headers = tasks[h].headers]_vars

\* the dicts differ as Python compares them: not the same items
DictDiffers(p, q) == {p[i] : i \in DOMAIN p} # {q[i] : i \in DOMAIN q}

\* long is short followed by NUL characters only
IsNulPaddingOf(long, short) ==
    /\ Len(long) >= Len(short)
    /\ SubSeq(long, 1, Len(short)) = short
    /\ \A i \in (Len(short) + 1)..Len(long) : long[i] = NUL

\* the secrets differ in more than trailing NUL characters
DiffersBeyondPadding(s, t) == ~IsNulPaddingOf(s, t) /\ ~IsNulPaddingOf(t, s)

\* the verification used the signature made from its payload and secret
VerifiedOwnSignature ==
    /\ verification.signature # None
    /\ verification.signature[1] =
          create_webhook_signature(verification.payload, verification.secret)

C16_VerifyNeverRaises ==
    /\ verification.outcome.raised = None
    /\ (verification.signature # None
          /\ verification.signature[1] =
                create_webhook_signature(verification.with_payload,
                                         verification.with_secret))
        \/ verification.outcome.returned \in {None, Some(FALSE)}

\* the step in which an expire arrives at a pending request
C17_ExpireStep ==
    \A rid \in RequestIds :
        (/\ Len(calls') = Len(calls) + 1
         /\ calls'[Len(calls')].request_id = rid
         /\ calls'[Len(calls')].result = Some(NoRoute)
         /\ consultation_requests[rid].state = "pending")
        => /\ consultation_requests'[rid].state = "timeout"
           /\ consultation_requests'[rid].response = None

\* C17: expire applied to a pending request sets its state to timeout and
\* leaves response unset; a respond call made afterwards is rejected with
\* an error naming timeout.
C17_ExpireSetsTimeout ==
    /\ [][C17_ExpireStep]_vars
    /\ [](\A h \in CallIds :
            (/\ Rejected(h)
             /\ RequestExists(calls[h].request_id)
             /\ consultation_requests[calls[h].request_id].state = "timeout")
            => calls[h].result[1].detail[2] = "timeout")

\* the attempts of the sequence of task h whose HTTP call has completed
CompletedAttempts(h) ==
    IF tasks[h].pc = "posting" THEN tasks[h].attempt ELSE tasks[h].attempt + 1

\* C18: at every point the Delivery rows of a request have the retry_count
\* values 0..k-1, one row each, where k is the number of attempts whose
\* HTTP call has completed.
C18_RetryCountsContiguous ==
    \A rid \in RequestIds :
        /\ \A d \in DOMAIN RowsOf(rid) : d.retry_count < NumRows(rid)
        /\ \A k \in 0..(NumRows(rid) - 1) : NumRowsWithRetry(rid, k) = 1
        /\ \A h \in CallIds :
               (tasks[h].request_id = rid /\ InFlight(h)) =>
                   NumRows(rid) = CompletedAttempts(h)

\* the row with another callback_secret
WithSecret(request, secret) == [request EXCEPT !.callback_secret = secret]

\* the state filters of list_requests
StateFilters == {None, Some("pending"), Some("responded"), Some("callback_sent")}

\* C19: callback_secret is never disclosed. What create, get, list and
\* respond return for a request is the same whatever its callback_secret
\* is and has no callback_secret field; so is the webhook payload, and no
\* Delivery row has the secret as a column or in its payload.
C19_SecretNeverDisclosed ==
    \A rid \in RequestIds :
        LET request == consultation_requests[rid]
            body == get_request(rid).body[1]
            PayloadKeysOf(payload) == {payload[i][1] : i \in DOMAIN payload}
        IN  /\ "callback_secret" \notin DOMAIN body
            /\ \A secret \in CallbackSecrets :
                  /\ ResponseModel(rid, WithSecret(request, secret)) = body
                  /\ BuildPayload(rid, WithSecret(request, secret))
                        = BuildPayload(rid, request)
            /\ \A state \in StateFilters :
                  LET page == list_requests(state)
                  IN  \A i \in DOMAIN page.items :
                          page.items[i].id = rid => page.items[i] = body
            /\ \A h \in CallIds :
                  /\ (calls[h].request_id = rid /\ Accepted(h)) =>
                        "callback_secret" \notin DOMAIN calls[h].result[1].body[1]
                  /\ (tasks[h].request_id = rid /\ InFlight(h)) =>
                        PayloadKeysOf(tasks[h].payload[1])
                            = {"event", "request_id", "metadata", "response"}
            /\ \A d \in DOMAIN RowsOf(rid) :
                  /\ "callback_secret" \notin DOMAIN d
                  /\ PayloadKeysOf(d.payload)
                        = {"event", "request_id", "metadata", "response"}

\* a request with the secret "k" was responded to, is listed, and has a
\* Delivery row
C19_Witness ==
    \E h \in CallIds :
        /\ Accepted(h)
        /\ consultation_requests[calls[h].request_id].callback_secret = Some(<<"k">>)
        /\ list_requests(None).total >= 1
        /\ NumRows(calls[h].request_id) >= 1

\* the step in which the HTTP call of task h completes
C20_AttemptStep(h) ==
    (tasks[h].pc = "posting" /\ tasks'[h] # tasks[h]) =>
        \/ /\ tasks'[h].pc = "done"
           /\ \E d \in DOMAIN webhook_deliveries' :
                 /\ is_success(d)
                 /\ d.retry_count = tasks[h].attempt
                 /\ CopiesIn(d, webhook_deliveries') = CopiesIn(d, webhook_deliveries) + 1
        \/ /\ ~Is2xx(tasks'[h].received)
           /\ tasks'[h].attempt = tasks[h].attempt
           /\ tasks'[h].pc = IF tasks[h].attempt < max_retries - 1
                             THEN "sleeping" ELSE "failing"

C30_NotFoundStep ==
    (/\ Len(calls') = Len(calls) + 1
     /\ ~RequestExists(calls'[Len(calls')].request_id))
    => /\ calls'[Len(calls')].pc = "done"
       /\ calls'[Len(calls')].result[1].status_code = 404
       /\ calls'[Len(calls')].result[1].detail = <<"Request not found">>
       /\ consultation_requests' = consultation_requests
       /\ webhook_deliveries' = webhook_deliveries
       /\ tasks' = Append(tasks, NoTask)

\* C30: respond_to_request on an id that does not exist fails with a
\* not-found error and has no effect: no request is created or modified, no
\* Delivery row is written and no webhook task is scheduled, then or later.
C30_RespondNotFoundHasNoEffect ==
    /\ [][C30_NotFoundStep]_vars
    /\ [](\A h \in CallIds :
            (calls[h].result # None /\ calls[h].result[1].status_code = 404) =>
                calls[h].pc = "done" /\ tasks[h].pc = "none")

\* a respond call for a missing id was answered 404 and the table is empty
C30_Witness ==
    \E h \in CallIds :
        /\ calls[h].result = Some(NotFoundResult)
        /\ ~RequestExists(calls[h].request_id)
        /\ consultation_requests = <<>>
        /\ webhook_deliveries = EmptyBag

\* the steps of task h around its backoff sleep
C21_SleepStep(h) ==
    /\ (tasks'[h].pc = "sleeping" /\ tasks[h].pc # "sleeping") =>
          /\ tasks[h].pc = "posting"
          /\ ~Is2xx(tasks'[h].received)
          /\ tasks'[h].attempt = tasks[h].attempt
          /\ tasks[h].attempt < max_retries - 1
          /\ tasks'[h].sleep = Some(2 ^ tasks[h].attempt)
    /\ (tasks'[h].pc = "posting" /\ tasks[h].pc # "posting") =>
          \/ tasks[h].pc = "scheduled" /\ tasks'[h].attempt = 0
          \/ /\ tasks[h].pc = "sleeping"
             /\ tasks'[h].attempt = tasks[h].attempt + 1
    /\ (tasks[h].pc = "posting" /\ tasks'[h].pc # "posting") =>
          \/ tasks'[h].pc = "done" /\ tasks'[h].sleep = None
          \/ /\ tasks'[h].pc = "failing" /\ tasks'[h].sleep = None
             /\ tasks[h].attempt = max_retries - 1
          \/ /\ tasks'[h].pc = "sleeping"
             /\ tasks[h].attempt < max_retries - 1

C29_DeadlineStep ==
    /\ \A rid \in RequestIds :
          consultation_requests'[rid].timeout_at = consultation_requests[rid].timeout_at
    /\ Len(consultation_requests') = Len(consultation_requests) + 1 =>
          consultation_requests'[Len(consultation_requests')].timeout_at
              \in {None, Some(now + 1)}
    /\ (/\ Len(calls') = Len(calls) + 1
        /\ RequestExists(calls'[Len(calls')].request_id)) =>
          (calls'[Len(calls')].pc = "update" <=>
              consultation_requests[calls'[Len(calls')].request_id].state = "pending")
    /\ \A h \in CallIds :
          (calls[h].pc = "update" /\ calls'[h].pc = "done") =>
              consultation_requests'[calls[h].request_id].state = "responded"

\* C29: the respond guard looks at the state only, never at timeout_at: a
\* respond call on a pending request is accepted and moves it to responded
\* also after the deadline; timeout_at is written once, at creation, as
\* creation time + timeout_minutes or null, and neither respond nor the
\* delivery sequence modifies it.
C29_DeadlineIgnoredByRespond ==
    [][C29_DeadlineStep]_vars

\* a respond call arrived after the deadline of a pending request, was
\* accepted, and the request is responded
C29_Witness ==
    \E h \in CallIds :
        /\ calls[h].pc = "done"
        /\ calls[h].result[1].status_code = 200
        /\ LET request == consultation_requests[calls[h].request_id]
           IN  /\ request.timeout_at # None
               /\ request.responded_at # None
               /\ request.responded_at[1] > request.timeout_at[1]
               /\ request.state = "responded"

\* a step of the delivery sequence of call h, seen from every request
C25_SequenceStep(h) ==
    (tasks[h].pc \in {"scheduled", "posting", "sleeping", "failing"}
        /\ tasks'[h] # tasks[h]) =>
    LET own == tasks[h].request_id
    IN  /\ \A rid \in RequestIds \ {own} :
              consultation_requests'[rid] = consultation_requests[rid]
        /\ consultation_requests'[own] =
              [consultation_requests[own] EXCEPT
                  !.state = consultation_requests'[own].state,
                  !.callback_sent_at = consultation_requests'[own].callback_sent_at]
        /\ \A d \in DOMAIN webhook_deliveries \cup DOMAIN webhook_deliveries' :
              /\ CopiesIn(d, webhook_deliveries') >= CopiesIn(d, webhook_deliveries)
              /\ d.request_id # own =>
                    CopiesIn(d, webhook_deliveries') = CopiesIn(d, webhook_deliveries)
        /\ \A g \in CallIds \ {h} : tasks'[g] = tasks[g] /\ calls'[g] = calls[g]

\* C25: delivery sequences of different requests are independent: a step of
\* the sequence of request A changes only the state and callback_sent_at of
\* A and appends only rows of A; the state, the response and the rows of
\* every other request B, and the sequence of B, are as they were, so that
\* B ends as it would have without the sequence of A.
C25_SequencesIndependent ==
    [][\A h \in CallIds : C25_SequenceStep(h)]_vars

\* the sequences of two requests have both run: one ended in callback_sent
\* while the other was between attempts, with a row of its own
C25_Witness ==
    \E g, h \in CallIds :
        /\ tasks[g].request_id # tasks[h].request_id
        /\ tasks[g].pc = "done"
        /\ consultation_requests[tasks[g].request_id].state = "callback_sent"
        /\ tasks[h].pc = "sleeping"
        /\ NumRows(tasks[h].request_id) >= 1
        /\ consultation_requests[tasks[h].request_id].state = "responded"

\* the attempts of a cancelled task that had been recorded
CompletedBeforeCancel(h) ==
    IF tasks[h].sleep # None THEN tasks[h].attempt + 1 ELSE tasks[h].attempt

\* the step that cancels task h, and the steps after it
C24_CancelStep(h) ==
    /\ (tasks'[h].pc = "cancelled" /\ tasks[h].pc # "cancelled") =>
          /\ tasks[h].pc \in {"posting", "sleeping"}
          /\ consultation_requests' = consultation_requests
          /\ webhook_deliveries' = webhook_deliveries
    /\ tasks[h].pc = "cancelled" =>
          /\ tasks'[h] = tasks[h]
          /\ consultation_requests'[tasks[h].request_id] =
                consultation_requests[tasks[h].request_id]
          /\ RowsOf(tasks[h].request_id)' = RowsOf(tasks[h].request_id)

\* C24: a sequence cancelled at a suspension point, the HTTP call or the
\* backoff sleep, leaves the request in its last committed state,
\* responded, and leaves as committed rows exactly those of the completed
\* attempts: no row for the interrupted attempt, then or later.
C24_CancelLeavesCommittedState ==
    /\ [][\A h \in CallIds : C24_CancelStep(h)]_vars
    /\ [](\A h \in CallIds :
            tasks[h].pc = "cancelled" =>
                /\ consultation_requests[tasks[h].request_id].state = "responded"
                /\ NumRows(tasks[h].request_id) = CompletedBeforeCancel(h)
                /\ \A k \in 0..(CompletedBeforeCancel(h) - 1) :
                      NumRowsWithRetry(tasks[h].request_id, k) = 1
                /\ \A d \in DOMAIN RowsOf(tasks[h].request_id) : ~is_success(d))

\* a sequence was cancelled during the HTTP call of its second attempt: one
\* row, of attempt 0, and the request is responded
C24_Witness ==
    \E h \in CallIds :
        /\ tasks[h].pc = "cancelled"
        /\ tasks[h].attempt = 1
        /\ tasks[h].sleep = None
        /\ NumRows(tasks[h].request_id) = 1
        /\ NumRowsWithRetry(tasks[h].request_id, 0) = 1
        /\ consultation_requests[tasks[h].request_id].state = "responded"

\* request rid has been answered and has a webhook to call
AwaitsDelivery(rid) ==
    /\ RequestExists(rid)
    /\ consultation_requests[rid].state = "responded"
    /\ HasWebhook(consultation_requests[rid])

\* request rid has reached the end of its delivery
DeliveryOver(rid) ==
    /\ RequestExists(rid)
    /\ consultation_requests[rid].state \in {"callback_sent", "callback_failed"}

\* C23: every delivery sequence terminates: while HTTP calls return or time
\* out and the process runs, a responded request with a callback_webhook
\* reaches callback_sent or callback_failed, after at most 3 attempts of a
\* sequence; it does not stay responded for ever.
C23_DeliveryTerminates ==
    /\ \A rid \in 1..MaxRequests : AwaitsDelivery(rid) ~> DeliveryOver(rid)
    /\ [](\A h \in CallIds : tasks[h].attempt <= max_retries - 1)
    /\ \A h \in 1..MaxCalls :
          (h \in CallIds /\ tasks[h].pc = "scheduled")
              ~> (h \in CallIds /\ tasks[h].pc = "done")

\* a sequence has ended after its third failed attempt and the request is
\* callback_failed
C23_Witness ==
    \E h \in CallIds :
        /\ tasks[h].pc = "done"
        /\ consultation_requests[tasks[h].request_id].state = "callback_failed"
        /\ NumRows(tasks[h].request_id) >= max_retries

\* C28: within one sequence, once an attempt has received a 2xx answer no
\* further HTTP call is made: the loop stops at the first 2xx, also when
\* recording the success fails with an exception. A sequence that has a
\* 2xx in hand neither sleeps towards a next attempt nor starts one.
C28_NoCallAfterSuccess ==
    [][\A h \in CallIds :
          Is2xx(tasks[h].received) =>
              /\ tasks[h].pc # "sleeping"
              /\ tasks'[h].pc # "posting"]_vars

\* C22: for every status_code, null or 100..599, is_success is true exactly
\* for 200..299 and is_retriable is true exactly for null and 500..599, so
\* is_retriable is false for 4xx and for 2xx, and the two are never both
\* true.
C22_DeliveryClassification ==
    inspection.inspected =>
        LET status_code == inspection.status_code
        IN  /\ inspection.is_success <=>
                  (status_code # None /\ status_code[1] \in 200..299)
            /\ inspection.is_retriable <=>
                  (status_code = None \/ status_code[1] \in 500..599)
            /\ (status_code # None /\ status_code[1] \in 200..499) =>
                  ~inspection.is_retriable
            /\ ~(inspection.is_success /\ inspection.is_retriable)

\* a row with status 404 was read: neither a success nor retriable
C22_Witness ==
    /\ inspection.inspected
    /\ inspection.status_code = Some(404)
    /\ ~inspection.is_success
    /\ ~inspection.is_retriable

\* the calls of agents
AgentCallIds == DOMAIN agent_calls

\* the header presents, as a Bearer token, a key whose hash is stored in a
\* row that is active now
PresentsActiveKey(authorization) ==
    /\ authorization # None
    /\ Len(authorization[1]) = 2
    /\ authorization[1][1] \in {"Bearer", "bearer"}
    /\ \E i \in DOMAIN api_keys :
          /\ api_keys[i].key_hash = hash_api_key(authorization[1][2])
          /\ api_keys[i].is_active

\* the steps of key management and of create_request calls
C26_KeyStep ==
    /\ Len(agent_calls') = Len(agent_calls) + 1 =>
          LET call == agent_calls'[Len(agent_calls')]
          IN  /\ consultation_requests' = consultation_requests
              /\ IF PresentsActiveKey(call.authorization)
                 THEN call.pc = "authorized"
                 ELSE /\ call.pc = "done"
                      /\ call.status_code = Some(401)
                      /\ call.request_id = None
    /\ consultation_requests' # consultation_requests =>
          \E c \in AgentCallIds :
              /\ agent_calls[c].pc = "authorized"
              /\ agent_calls'[c].pc = "done"
              /\ agent_calls'[c].status_code = Some(201)
              /\ agent_calls'[c].request_id = Some(Len(consultation_requests'))
              /\ consultation_requests' =
                    Append(consultation_requests,
                           consultation_requests'[Len(consultation_requests')])
    /\ api_keys' # api_keys => consultation_requests' = consultation_requests
    /\ \A c \in AgentCallIds :
          agent_calls[c].status_code = Some(401) => agent_calls'[c] = agent_calls[c]

\* C26: create_request is accepted only when the presented API key hashes
\* to a stored key that is active at that moment: once update_api_key has
\* set is_active to false, every later create_request with that key is
\* rejected with 401 and creates no ConsultationRequest, and the requests
\* created before are as they were.
C26_InactiveKeyRejected ==
    [][C26_KeyStep]_vars

\* a key created a request, was revoked, and the same header was then
\* rejected: one request in the table
C26_Witness ==
    \E c, e \in AgentCallIds :
        /\ c < e
        /\ agent_calls[c].authorization = agent_calls[e].authorization
        /\ agent_calls[c].status_code = Some(201)
        /\ agent_calls[e].status_code = Some(401)
        /\ agent_calls[e].detail = "Invalid or inactive API key"
        /\ \E i \in DOMAIN api_keys :
              /\ api_keys[i].key_hash = hash_api_key(agent_calls[c].authorization[1][2])
              /\ ~api_keys[i].is_active
        /\ Len(consultation_requests) = 1

\* C27: send_notification_email returns True when the email was sent and
\* False otherwise: whatever the configuration (email disabled, resend,
\* sendgrid, credentials missing, provider unknown) and whatever the
\* provider does (success, error status, exception), it returns a boolean
\* and does not raise.
C27_SendNotificationNeverRaises ==
    email.called =>
        /\ email.raised = None
        /\ email.returned \in {Some(TRUE), Some(FALSE)}
        /\ email.returned = Some(TRUE) => email.provider_outcome = "success"

====
